---- MODULE Spec2Model ----
(***************************************************************************)
(* Model of the fuzzy search / compact list tools of PterodactylMCP        *)
(* (src/pterodactyl_mcp/ai_tools.py, src/pterodactyl_mcp/client.py).       *)
(*                                                                         *)
(* Text is a sequence of one-character strings.  Python floats are         *)
(* modelled as exact rationals: a score s is the integer s * Unit, where   *)
(* Unit is divisible by every denominator the scorer can produce within    *)
(* the bounds, by 10 (one decimal) and by 2 (the 99.5 threshold).          *)
(***************************************************************************)
EXTENDS Integers, Sequences, FiniteSets, TLC

\* Longest text (query, field value) the model draws.
MaxLen == 3

\* ------------------------------------------------------------------ text

\* The value None; it differs from every text.
None == <<"None">>

Alphabet == {"a", "b", "A", " "}

\* str.lower() on one character.
Lower(ch) == IF ch = "A" THEN "a" ELSE IF ch = "B" THEN "b" ELSE ch

\* The complement of the character class [^a-z0-9] of _NON_ALNUM_RE.
IsAlnum(ch) == ch \in {"a", "b"}

\* The characters str.strip() and str.split() treat as whitespace.
IsSpace(ch) == ch = " "

LowerText(s) == [i \in 1..Len(s) |-> Lower(s[i])]

RECURSIVE DropNonAlnum(_)
DropNonAlnum(s) ==
    IF s = <<>> \/ IsAlnum(Head(s)) THEN s ELSE DropNonAlnum(Tail(s))

\* _NON_ALNUM_RE.sub(repl, s): every maximal run of non-alphanumerics -> repl.
RECURSIVE SubNonAlnum(_, _)
SubNonAlnum(repl, s) ==
    IF s = <<>> THEN <<>>
    ELSE IF IsAlnum(Head(s)) THEN <<Head(s)>> \o SubNonAlnum(repl, Tail(s))
    ELSE repl \o SubNonAlnum(repl, DropNonAlnum(Tail(s)))

RECURSIVE LStrip(_)
LStrip(s) == IF s # <<>> /\ IsSpace(Head(s)) THEN LStrip(Tail(s)) ELSE s

RECURSIVE RStrip(_)
RStrip(s) ==
    IF s # <<>> /\ IsSpace(s[Len(s)]) THEN RStrip(SubSeq(s, 1, Len(s) - 1)) ELSE s

\* Faulty variant of Strip: nothing is trimmed.
StripNothing(s) == s

\* str.strip()
Strip(s) == RStrip(LStrip(s))

\* str.split(): the maximal runs of non-whitespace, in order.
RECURSIVE Split(_)
Split(s) ==
    LET t == LStrip(s)
        n == IF \E i \in 1..Len(t) : IsSpace(t[i])
             THEN (CHOOSE i \in 1..Len(t) :
                       IsSpace(t[i]) /\ \A j \in 1..(i - 1) : ~IsSpace(t[j])) - 1
             ELSE Len(t)
    IN  IF t = <<>> THEN <<>>
        ELSE <<SubSeq(t, 1, n)>> \o Split(SubSeq(t, n + 1, Len(t)))

\* (text or "")
OrEmpty(text) == IF text = None THEN <<>> ELSE text

\* _normalize
Normalize(text) == Strip(SubNonAlnum(<<" ">>, LowerText(OrEmpty(text))))

\* _compact
Compact(text) == SubNonAlnum(<<>>, LowerText(OrEmpty(text)))

\* s.startswith(p)
StartsWith(s, p) == Len(p) <= Len(s) /\ SubSeq(s, 1, Len(p)) = p

\* p in s
Contains(s, p) ==
    \E i \in 0..(Len(s) - Len(p)) : SubSeq(s, i + 1, i + Len(p)) = p

\* ---------------------------------------------------------------- scorer

RECURSIVE Gcd(_, _)
Gcd(x, y) == IF y = 0 THEN x ELSE Gcd(y, x % y)

\* The least common multiple of acc and 1..n.
RECURSIVE Lcm(_, _)
Lcm(n, acc) ==
    IF n <= 1 THEN acc ELSE Lcm(n - 1, (acc * n) \div Gcd(acc, n))

\* One score point.  Every text the model scores (a trimmed query, a field
\* value, a joined name) is at most MaxLen long, so a ratio 2M/T has T <= 2 *
\* MaxLen and a token score hits/n has n <= MaxLen.
Unit == 20 * Lcm(2 * MaxLen, 1)

Max(x, y) == IF x >= y THEN x ELSE y
Min(x, y) == IF x <= y THEN x ELSE y

\* Length of the longest common prefix of a[i:ahi] and b[j:bhi] (0-based).
RECURSIVE CommonLen(_, _, _, _, _, _)
CommonLen(a, b, i, j, ahi, bhi) ==
    IF i < ahi /\ j < bhi /\ a[i + 1] = b[j + 1]
    THEN 1 + CommonLen(a, b, i + 1, j + 1, ahi, bhi)
    ELSE 0

\* SequenceMatcher.find_longest_match without junk: the longest block, of
\* those the one starting earliest in a, of those the earliest in b.
FindLongestMatch(a, b, alo, ahi, blo, bhi) ==
    LET Cands == {<<i, j, CommonLen(a, b, i, j, ahi, bhi)>> :
                      i \in alo..(ahi - 1), j \in blo..(bhi - 1)}
        Before(t, u) == \/ t[3] > u[3]
                        \/ t[3] = u[3] /\ t[1] < u[1]
                        \/ t[3] = u[3] /\ t[1] = u[1] /\ t[2] <= u[2]
    IN  IF Cands = {} THEN <<alo, blo, 0>>
        ELSE CHOOSE t \in Cands : \A u \in Cands : Before(t, u)

\* Total size of SequenceMatcher.get_matching_blocks on a[alo:ahi], b[blo:bhi].
RECURSIVE MatchSize(_, _, _, _, _, _)
MatchSize(a, b, alo, ahi, blo, bhi) ==
    LET m == FindLongestMatch(a, b, alo, ahi, blo, bhi)
    IN  IF m[3] = 0 THEN 0
        ELSE m[3] + MatchSize(a, b, alo, m[1], blo, m[2])
                  + MatchSize(a, b, m[1] + m[3], ahi, m[2] + m[3], bhi)

\* SequenceMatcher(None, a, b).ratio(), times Unit.
SeqRatio(a, b) ==
    IF Len(a) + Len(b) = 0 THEN Unit
    ELSE (2 * MatchSize(a, b, 0, Len(a), 0, Len(b)) * Unit) \div (Len(a) + Len(b))

\* _token_match_score, times Unit.
TokenMatchScore(query, candidate) ==
    LET q_tokens == Split(Normalize(query))
        c_tokens == Split(Normalize(candidate))
        hits == Cardinality({i \in 1..Len(q_tokens) :
                    \E j \in 1..Len(c_tokens) :
                        \/ StartsWith(c_tokens[j], q_tokens[i])
                        \/ Contains(c_tokens[j], q_tokens[i])})
    IN  IF q_tokens = <<>> \/ c_tokens = <<>> THEN 0
        ELSE (hits * 100 * Unit) \div Len(q_tokens)

RatioWeight == 55
TokenWeight == 45
PrefixBonus == 12
SubstringBonus == 8
ReversePrefixBonus == 6
MaxScore == 100

\* The bonus of _string_similarity_score, in points.
Bonus(q_comp, c_comp) ==
    IF q_comp # <<>> /\ c_comp # <<>>
    THEN IF StartsWith(c_comp, q_comp) THEN PrefixBonus
         ELSE IF Contains(c_comp, q_comp) THEN SubstringBonus
         ELSE IF StartsWith(q_comp, c_comp) THEN ReversePrefixBonus
         ELSE 0
    ELSE 0

\* 0.55 * ratio + 0.45 * token_score + bonus before the clamp, times Unit.
RawScore(query, candidate) ==
    LET q_norm == Normalize(query)
        c_norm == Normalize(candidate)
        q_comp == Compact(query)
        c_comp == Compact(candidate)
        ratio_norm == SeqRatio(q_norm, c_norm)
        ratio_comp == IF q_comp # <<>> /\ c_comp # <<>>
                      THEN SeqRatio(q_comp, c_comp) ELSE 0
        ratio == Max(ratio_norm, ratio_comp) * 100
        token_score == TokenMatchScore(query, candidate)
    IN  (RatioWeight * ratio + TokenWeight * token_score) \div 100
            + Bonus(q_comp, c_comp) * Unit

\* Faulty variant of StringSimilarityScore: the final clamp is missing.
ScoreUnclamped(query, candidate) ==
    LET q_norm == Normalize(query)
        c_norm == Normalize(candidate)
        q_comp == Compact(query)
        c_comp == Compact(candidate)
    IN  IF q_norm = <<>> \/ c_norm = <<>> THEN 0
        ELSE IF q_norm = c_norm \/ (q_comp # <<>> /\ q_comp = c_comp)
        THEN MaxScore * Unit
        ELSE RawScore(query, candidate)

\* _string_similarity_score, times Unit.
StringSimilarityScore(query, candidate) ==
    LET q_norm == Normalize(query)
        c_norm == Normalize(candidate)
        q_comp == Compact(query)
        c_comp == Compact(candidate)
        score == RawScore(query, candidate)
    IN  IF q_norm = <<>> \/ c_norm = <<>> THEN 0
        ELSE IF q_norm = c_norm \/ (q_comp # <<>> /\ q_comp = c_comp)
        THEN MaxScore * Unit
        ELSE IF score < 0 THEN 0
        ELSE IF score > MaxScore * Unit THEN MaxScore * Unit
        ELSE score

\* ----------------------------------------------------------------- values

\* A JSON number n.  Every value of the model is None, a text, Num(n) or Str(s).
Num(n) == <<"num", n>>

\* An opaque string s (a field name).
Str(s) == <<"str", s>>

\* isinstance(v, int)
IsInt(v) == Len(v) = 2 /\ v[1] = "num"

\* Python truthiness of a value that is None or a text.
Truthy(v) == v # None /\ v # <<>>

\* _strip_nones
StripNones(d) == [k \in {x \in DOMAIN d : d[x] # None /\ d[x] # <<>>} |-> d[k]]

DescriptionMax == 120

\* _truncate
Truncate(value, max_len) ==
    IF value = None THEN None
    ELSE IF Len(value) <= max_len THEN value
    ELSE SubSeq(value, 1, max_len - 1) \o <<"...">>

\* " ".join(parts)
RECURSIVE JoinSpace(_)
JoinSpace(parts) ==
    IF parts = <<>> THEN <<>>
    ELSE IF Len(parts) = 1 THEN parts[1]
    ELSE parts[1] \o <<" ">> \o JoinSpace(Tail(parts))

\* round(score, 1), in tenths of a point; a tie goes to the even tenth.
RoundTenths(score) ==
    LET tenth == Unit \div 10
        lo == score \div tenth
        rest == score % tenth
    IN  IF 2 * rest < tenth THEN lo
        ELSE IF 2 * rest > tenth THEN lo + 1
        ELSE IF lo % 2 = 0 THEN lo ELSE lo + 1

\* --------------------------------------------------------------- records

FieldNames == {"id", "uuid", "external_id", "username", "email", "first_name",
               "last_name", "name", "identifier", "description", "suspended"}

\* A record with no field set: attrs.get(f) is None for every f.
BlankRecord == [f \in FieldNames |-> None]

Account(username, email, first, last) ==
    [BlankRecord EXCEPT !["username"] = username, !["email"] = email,
                        !["first_name"] = first, !["last_name"] = last]

Both(r, name, identifier) ==
    [r EXCEPT !["name"] = name, !["identifier"] = identifier]

RExact == Both(Account(<<"a", "b", "b">>, None, None, None), <<"a", "b", "b">>, None)
RMid   == Both(Account(<<"a", "b">>, None, None, None), <<"a", "b">>, None)
RLow   == Both(Account(<<"b", "b">>, None, None, None), <<"b", "b">>, None)
RThird == Both(Account(<<"b", "a", "a">>, None, None, None), <<"b", "a", "a">>, None)
RTie   == Both(Account(<<"A", "b">>, <<"a", "b">>, <<"a">>, <<"b">>), <<"b">>, <<"a", " ", "b">>)
RSpace == Both(Account(<<" ">>, None, None, None), <<" ">>, None)

\* An element of an envelope's data list: a mapping or not; when a mapping, its
\* "attributes" entry (absent, a mapping, or something else) and its own fields.
Wrapped(r) == [isdict |-> TRUE, attributes |-> "dict", attrs |-> r, own |-> BlankRecord]
Flat(r) == [isdict |-> TRUE, attributes |-> "absent", attrs |-> BlankRecord, own |-> r]
OddAttributes(r) == [isdict |-> TRUE, attributes |-> "other", attrs |-> BlankRecord, own |-> r]
Scalar == [isdict |-> FALSE, attributes |-> "absent", attrs |-> BlankRecord, own |-> BlankRecord]

\* meta.pagination: the four entries the code reads.
Pagination(total_pages) ==
    [current_page |-> None, per_page |-> None, total |-> None,
     total_pages |-> total_pages]

\* {} as a pagination mapping.
NoPagination == Pagination(None)

\* A decoded response.  shape: "text" (not a mapping), "sentinel" ({status: 204})
\* or "envelope"; data: "absent", "other" (present, not a list) or "list";
\* meta and pagination: "absent", "other" (not a mapping) or "dict".
Envelope(data, items, meta, pagination, pg) ==
    [shape |-> "envelope", data |-> data, items |-> items, meta |-> meta,
     pagination |-> pagination, pg |-> pg]

TextPayload == [Envelope("absent", <<>>, "absent", "absent", NoPagination)
                    EXCEPT !.shape = "text"]
Sentinel204 == [Envelope("absent", <<>>, "absent", "absent", NoPagination)
                    EXCEPT !.shape = "sentinel"]

Many == 9

PageA == <<Wrapped(RLow), Wrapped(RExact), Flat(RMid)>>
PageB == <<Flat(RMid), Wrapped(RThird)>>
PageC == <<Scalar, OddAttributes(RTie), Flat(RSpace)>>
PageD == <<Wrapped(RExact), Wrapped(RExact)>>

Payloads ==
    { TextPayload, Sentinel204,
      Envelope("other", <<>>, "dict", "dict", Pagination(Num(Many))),
      Envelope("absent", <<>>, "dict", "dict", Pagination(None)),
      Envelope("list", <<>>, "dict", "dict", Pagination(Num(Many))),
      Envelope("list", PageA, "dict", "dict", Pagination(Num(Many))),
      Envelope("list", PageA, "absent", "absent", NoPagination),
      Envelope("list", PageB, "dict", "dict", Pagination(Num(Many))),
      Envelope("list", PageB, "dict", "other", NoPagination),
      Envelope("list", PageB, "dict", "dict", Pagination(Num(1))),
      Envelope("list", PageC, "dict", "dict", Pagination(<<"b">>)),
      Envelope("list", PageD, "other", "absent", NoPagination),
      Envelope("list", PageD, "dict", "dict", Pagination(Num(2))) }

\* The outcome of a request that raised (RuntimeError on a status >= 400, or
\* the transport's own exception).
Raised == [Envelope("absent", <<>>, "absent", "absent", NoPagination)
               EXCEPT !.shape = "raised"]

\* Faulty variant of ExtractListItems: an item without an "attributes" mapping
\* is dropped instead of being used as the record.
ExtractWrappedOnly(payload) ==
    IF payload.shape = "text" THEN <<>>
    ELSE IF payload.data = "list"
    THEN LET dicts == SelectSeq(payload.items,
                                LAMBDA it : it.isdict /\ it.attributes = "dict")
         IN  [i \in 1..Len(dicts) |-> dicts[i].attrs]
    ELSE <<>>

\* _extract_list_items
ExtractListItems(payload) ==
    IF payload.shape = "text" THEN <<>>
    ELSE IF payload.data = "list"
    THEN LET dicts == SelectSeq(payload.items, LAMBDA it : it.isdict)
         IN  [i \in 1..Len(dicts) |->
                 IF dicts[i].attributes = "dict" THEN dicts[i].attrs
                 ELSE dicts[i].own]
    ELSE <<>>

\* _extract_pagination
ExtractPagination(payload) ==
    IF payload.shape = "text" THEN NoPagination
    ELSE IF payload.meta # "dict" THEN NoPagination
    ELSE IF payload.pagination # "dict" THEN NoPagination
    ELSE payload.pg

\* ------------------------------------------------------------ summarizer

\* The name _compact_user and _fuzzy_search build from first_name, last_name.
FullName(attributes) ==
    LET first == Strip(OrEmpty(attributes["first_name"]))
        last == Strip(OrEmpty(attributes["last_name"]))
    IN  JoinSpace(SelectSeq(<<first, last>>, LAMBDA part : part # <<>>))

OrNone(text) == IF text = <<>> THEN None ELSE text

\* _compact_user; score is None or Num(tenths).
CompactUser(attributes, score, matched_on) ==
    StripNones([score |-> score, matched_on |-> matched_on,
                id |-> attributes["id"], uuid |-> attributes["uuid"],
                external_id |-> attributes["external_id"],
                username |-> attributes["username"],
                email |-> attributes["email"],
                name |-> OrNone(FullName(attributes))])

\* _compact_server
CompactServer(attributes, score, matched_on) ==
    StripNones([score |-> score, matched_on |-> matched_on,
                id |-> attributes["id"],
                identifier |-> attributes["identifier"],
                uuid |-> attributes["uuid"],
                external_id |-> attributes["external_id"],
                name |-> attributes["name"],
                description |-> Truncate(attributes["description"], DescriptionMax),
                suspended |-> attributes["suspended"]])

CompactOf(kind, attributes, score, matched_on) ==
    IF kind = "user" THEN CompactUser(attributes, score, matched_on)
    ELSE CompactServer(attributes, score, matched_on)

\* ---------------------------------------------------------------- ranker

\* The (field name, value) list _fuzzy_search scores, in its fixed order.
FieldsOf(kind, attrs) ==
    IF kind = "user"
    THEN << <<"username", attrs["username"]>>,
            <<"email", attrs["email"]>>,
            <<"name", OrNone(Strip(FullName(attrs)))>>,
            <<"external_id", attrs["external_id"]>>,
            <<"uuid", attrs["uuid"]>>,
            <<"id", attrs["id"]>> >>
    ELSE << <<"name", attrs["name"]>>,
            <<"identifier", attrs["identifier"]>>,
            <<"uuid", attrs["uuid"]>>,
            <<"external_id", attrs["external_id"]>>,
            <<"id", attrs["id"]>>,
            <<"description", attrs["description"]>> >>

\* Faulty variant of BestFrom: an equal score replaces the best, too.
RECURSIVE BestFromLastSeen(_, _, _, _)
BestFromLastSeen(q, fields, i, best) ==
    IF i > Len(fields) THEN best
    ELSE IF ~Truthy(fields[i][2]) THEN BestFromLastSeen(q, fields, i + 1, best)
    ELSE LET s == StringSimilarityScore(q, fields[i][2])
         IN  IF s >= best.score
             THEN BestFromLastSeen(q, fields, i + 1,
                                   [score |-> s, field |-> Str(fields[i][1])])
             ELSE BestFromLastSeen(q, fields, i + 1, best)

\* The loop over fields: only a strictly greater score replaces the best.
RECURSIVE BestFrom(_, _, _, _)
BestFrom(q, fields, i, best) ==
    IF i > Len(fields) THEN best
    ELSE IF ~Truthy(fields[i][2]) THEN BestFrom(q, fields, i + 1, best)
    ELSE LET s == StringSimilarityScore(q, fields[i][2])
         IN  IF s > best.score
             THEN BestFrom(q, fields, i + 1,
                           [score |-> s, field |-> Str(fields[i][1])])
             ELSE BestFrom(q, fields, i + 1, best)

\* best_score, best_field of one record.
Best(kind, q, attrs) ==
    BestFrom(q, FieldsOf(kind, attrs), 1, [score |-> 0, field |-> None])

\* Faulty variant of Consider: the threshold is not applied.
ConsiderAll(acc, score, attrs, matched_on, minScore) ==
    Append(acc, [score |-> score, attrs |-> attrs, matched_on |-> matched_on])

\* consider(): keep the record unless its score is below min_score.
Consider(acc, score, attrs, matched_on, minScore) ==
    IF score < minScore THEN acc
    ELSE Append(acc, [score |-> score, attrs |-> attrs, matched_on |-> matched_on])

LimitMax == 50
PerPageMax == 100

\* max(1, min(int(limit), 50))
ClampLimit(l) == Max(1, Min(l, LimitMax))

\* max(1, min(int(per_page), 100))
ClampPerPage(n) == Max(1, Min(n, PerPageMax))

\* max(1, int(max_pages)); max(1, int(page))
AtLeastOne(n) == Max(1, n)

\* 99.5, times Unit.
NearCertain == (995 * Unit) \div 10

\* Faulty variant of EarlyStop: the number of accepted matches is not looked at.
EarlyStopOnScoreOnly(best_score, accepted, lim) == best_score >= NearCertain

\* The early-termination test after a record was considered.
EarlyStop(best_score, accepted, lim) == best_score >= NearCertain /\ accepted >= lim

\* Faulty variant of SortDesc: the list is left in scan order.
SortNothing(seq) == seq

\* Faulty variant of SortDesc: of two equal scores the later one comes first.
RECURSIVE SortDescLastFirst(_)
SortDescLastFirst(seq) ==
    IF seq = <<>> THEN <<>>
    ELSE LET rest == SortDescLastFirst(SubSeq(seq, 1, Len(seq) - 1))
             x == seq[Len(seq)]
             n == Cardinality({i \in 1..Len(rest) : rest[i].score > x.score})
         IN  SubSeq(rest, 1, n) \o <<x>> \o SubSeq(rest, n + 1, Len(rest))

\* scored.sort(key=score, reverse=True): stable, equal scores keep their order.
RECURSIVE SortDesc(_)
SortDesc(seq) ==
    IF seq = <<>> THEN <<>>
    ELSE LET rest == SortDesc(SubSeq(seq, 1, Len(seq) - 1))
             x == seq[Len(seq)]
             n == Cardinality({i \in 1..Len(rest) : rest[i].score >= x.score})
         IN  SubSeq(rest, 1, n) \o <<x>> \o SubSeq(rest, n + 1, Len(rest))

\* Faulty variant of Cut: the list is not cut.
CutNothing(seq, lim) == seq

\* scored[:limit]
Cut(seq, lim) == SubSeq(seq, 1, Min(lim, Len(seq)))

\* Faulty variant of SearchResult: scanned.items counts the accepted records
\* only.
SearchResultCountingAccepted(kind, q, acc, lim, items, pages) ==
    LET top == Cut(SortDesc(acc), lim)
    IN  [query |-> q,
         matches |-> [i \in 1..Len(top) |->
                         CompactOf(kind, top[i].attrs, Num(RoundTenths(top[i].score)),
                                   top[i].matched_on)],
         scanned |-> [items |-> Len(acc), pages |-> Cardinality(pages)]]

\* The tail of _fuzzy_search: sort, cut, summarize, attach the statistics.
SearchResult(kind, q, acc, lim, items, pages) ==
    LET top == Cut(SortDesc(acc), lim)
    IN  [query |-> q,
         matches |-> [i \in 1..Len(top) |->
                         CompactOf(kind, top[i].attrs, Num(RoundTenths(top[i].score)),
                                   top[i].matched_on)],
         scanned |-> [items |-> items, pages |-> Cardinality(pages)]]

\* Faulty variant of StopAfterPage: an empty page does not stop the scan.
StopOnTotalOnly(page, total_pages, nitems) ==
    IsInt(total_pages) /\ page >= total_pages[2]

\* The paginator's test after a page: stop on a known total reached, or on an
\* empty page.
StopAfterPage(page, total_pages, nitems) ==
    \/ IsInt(total_pages) /\ page >= total_pages[2]
    \/ nitems = 0

\* Faulty variant of BudgetExhausted: the page budget is ignored.
BudgetIgnored(page, max_pages) == FALSE

\* for page in range(1, max_pages + 1): no page follows page max_pages.
BudgetExhausted(page, max_pages) == page >= max_pages

\* The body of _compact_list after the request.
ListResult(kind, payload) ==
    LET items == ExtractListItems(payload)
        pagination == ExtractPagination(payload)
    IN  [key |-> IF kind = "user" THEN "users" ELSE "servers",
         items |-> [i \in 1..Len(items) |-> CompactOf(kind, items[i], None, None)],
         pagination |-> StripNones(pagination)]

\* ----------------------------------------------------------------- state

\* Largest max_pages argument the model draws.
MaxPages == 2

Kinds == {"user", "server"}
Queries == {None, <<>>, <<" ", " ">>, <<" ", "a", "b">>, <<"a", "b", "b">>}
Limits == {0, 2, 51}
PerPages == {0, 1, 101}
\* min_score: one that keeps every record, one that a score attains exactly
\* and rounding undercuts, and one that only a full score reaches.
MinScores == {0, (1833 * Unit) \div 100, 100 * Unit}
ListPages == {0, 3}

VARIABLES
    pc,                 \* "idle", "fetch", "yield", "done", "failed"
    args,               \* the arguments of the call in progress
    query,              \* _fuzzy_search: the trimmed query
    limit,              \* _fuzzy_search: the clamped limit
    gen,                \* the frame of the _iter_paginated generator
    candidates_scanned, \* _fuzzy_search: records taken from the generator
    pages_scanned,      \* _fuzzy_search: page numbers of those records
    scored,             \* _fuzzy_search: the accepted (score, attrs, matched_on)
    requests,           \* the requests sent upstream, in order
    responses,          \* what each request produced: a payload or Raised
    considered,         \* the records scored so far, in order
    stop,               \* how the scan ended: "none", "early", "exhausted"
    result,             \* <<>> or <<the value returned>>
    error,              \* "none" or the exception the call ended with
    scorer              \* one application of _string_similarity_score

vars == <<pc, args, query, limit, gen, candidates_scanned, pages_scanned, scored,
          requests, responses, considered, stop, result, error, scorer>>

NoArgs == [op |-> "none", kind |-> "user", query |-> None, limit |-> 0,
           max_pages |-> 0, per_page |-> 0, min_score |-> 0, page |-> 0]

NoGen == [per_page |-> 0, max_pages |-> 0, page |-> 0, items |-> <<>>, pos |-> 0,
          pagination |-> NoPagination]

NoScorer == [query |-> <<>>, candidate |-> <<>>, score |-> 0, applied |-> FALSE]

Idle ==
    /\ pc = "idle"
    /\ args = NoArgs
    /\ query = <<>>
    /\ limit = 0
    /\ gen = NoGen
    /\ candidates_scanned = 0
    /\ pages_scanned = {}
    /\ scored = <<>>
    /\ requests = <<>>
    /\ responses = <<>>
    /\ considered = <<>>
    /\ stop = "none"
    /\ result = <<>>
    /\ error = "none"

Init == Idle /\ scorer = NoScorer

\* ptero_ai_search_users / ptero_ai_search_servers up to the loop of
\* _fuzzy_search: trim the query, reject an empty one, clamp the limit, create
\* the generator (whose first lines clamp per_page and max_pages).
SearchCall ==
    /\ pc = "idle"
    /\ \E kind \in Kinds, q \in Queries, l \in Limits, mp \in 0..MaxPages,
          pp \in PerPages, ms \in MinScores :
          /\ args' = [op |-> "search", kind |-> kind, query |-> q, limit |-> l,
                      max_pages |-> mp, per_page |-> pp, min_score |-> ms,
                      page |-> 0]
          /\ IF Strip(OrEmpty(q)) = <<>>
             THEN /\ pc' = "failed"
                  /\ error' = "ValueError"
                  /\ UNCHANGED <<query, limit, gen>>
             ELSE /\ pc' = "fetch"
                  /\ error' = "none"
                  /\ query' = Strip(OrEmpty(q))
                  /\ limit' = ClampLimit(l)
                  /\ gen' = [NoGen EXCEPT !.per_page = ClampPerPage(pp),
                                          !.max_pages = AtLeastOne(mp),
                                          !.page = 1]
    /\ UNCHANGED <<candidates_scanned, pages_scanned, scored, requests, responses,
                   considered, stop, result, scorer>>

\* Faulty variant of FetchPage: a request that raised is sent again.
FetchPageAgain ==
    /\ pc = "fetch"
    /\ requests' = Append(requests, [page |-> gen.page, per_page |-> gen.per_page])
    /\ \E r \in Payloads \cup {Raised} :
          /\ responses' = Append(responses, r)
          /\ IF r = Raised
             THEN /\ Len(requests) < 2
                  /\ UNCHANGED <<pc, error, gen>>
             ELSE /\ pc' = "yield"
                  /\ error' = "none"
                  /\ gen' = [gen EXCEPT !.items = ExtractListItems(r),
                                        !.pos = 1,
                                        !.pagination = ExtractPagination(r)]
    /\ UNCHANGED <<args, query, limit, candidates_scanned, pages_scanned, scored,
                   considered, stop, result, scorer>>

\* _iter_paginated: client.request for the current page.  The request either
\* raises, which ends the call, or returns a payload whose items are yielded.
FetchPage ==
    /\ pc = "fetch"
    /\ requests' = Append(requests, [page |-> gen.page, per_page |-> gen.per_page])
    /\ \E r \in Payloads \cup {Raised} :
          /\ responses' = Append(responses, r)
          /\ IF r = Raised
             THEN /\ pc' = "failed"
                  /\ error' = "RuntimeError"
                  /\ UNCHANGED gen
             ELSE /\ pc' = "yield"
                  /\ error' = "none"
                  /\ gen' = [gen EXCEPT !.items = ExtractListItems(r),
                                        !.pos = 1,
                                        !.pagination = ExtractPagination(r)]
    /\ UNCHANGED <<args, query, limit, candidates_scanned, pages_scanned, scored,
                   considered, stop, result, scorer>>

\* One iteration of the loop of _fuzzy_search: take the next record, score it,
\* consider it, and on the early-termination test leave the loop and return.
ConsiderItem ==
    /\ pc = "yield"
    /\ gen.pos <= Len(gen.items)
    /\ LET attrs == gen.items[gen.pos]
           best == Best(args.kind, query, attrs)
           acc == Consider(scored, best.score, attrs, best.field, args.min_score)
           pages == pages_scanned \cup {gen.page}
       IN  /\ pages_scanned' = pages
           /\ candidates_scanned' = candidates_scanned + 1
           /\ considered' = Append(considered, attrs)
           /\ scored' = acc
           /\ IF EarlyStop(best.score, Len(acc), limit)
              THEN /\ stop' = "early"
                   /\ result' = <<SearchResult(args.kind, query, acc, limit,
                                               candidates_scanned + 1, pages)>>
                   /\ pc' = "done"
                   /\ UNCHANGED gen
              ELSE /\ gen' = [gen EXCEPT !.pos = gen.pos + 1]
                   /\ UNCHANGED <<stop, result, pc>>
    /\ UNCHANGED <<args, query, limit, requests, responses, error, scorer>>

\* _iter_paginated after the last item of a page: stop on the pagination test,
\* on an empty page or on the page budget (then _fuzzy_search returns), else go
\* on to the next page.
PageEnd ==
    /\ pc = "yield"
    /\ gen.pos > Len(gen.items)
    /\ IF \/ StopAfterPage(gen.page, gen.pagination.total_pages, Len(gen.items))
          \/ BudgetExhausted(gen.page, gen.max_pages)
       THEN /\ stop' = "exhausted"
            /\ result' = <<SearchResult(args.kind, query, scored, limit,
                                        candidates_scanned, pages_scanned)>>
            /\ pc' = "done"
            /\ UNCHANGED gen
       ELSE /\ gen' = [gen EXCEPT !.page = gen.page + 1, !.items = <<>>, !.pos = 0]
            /\ pc' = "fetch"
            /\ UNCHANGED <<stop, result>>
    /\ UNCHANGED <<args, query, limit, candidates_scanned, pages_scanned, scored,
                   requests, responses, considered, error, scorer>>

\* ptero_ai_list_users / ptero_ai_list_servers: _compact_list, one request.
ListCall ==
    /\ pc = "idle"
    /\ \E kind \in Kinds, pg \in ListPages, pp \in PerPages,
          r \in Payloads \cup {Raised} :
          /\ args' = [NoArgs EXCEPT !.op = "list", !.kind = kind, !.page = pg,
                                    !.per_page = pp]
          /\ requests' = <<[page |-> AtLeastOne(pg), per_page |-> ClampPerPage(pp)]>>
          /\ responses' = <<r>>
          /\ IF r = Raised
             THEN /\ pc' = "failed"
                  /\ error' = "RuntimeError"
                  /\ UNCHANGED result
             ELSE /\ pc' = "done"
                  /\ error' = "none"
                  /\ result' = <<ListResult(kind, r)>>
    /\ UNCHANGED <<query, limit, gen, candidates_scanned, pages_scanned, scored,
                   considered, stop, scorer>>

Next == SearchCall \/ FetchPage \/ ConsiderItem \/ PageEnd \/ ListCall

Spec == Init /\ [][Next]_vars

\* ------------------------------------------------- the scorer on its own

RECURSIVE Texts(_)
Texts(n) ==
    IF n = 0 THEN {<<>>}
    ELSE LET shorter == Texts(n - 1)
         IN  shorter \cup {Append(t, ch) : t \in {u \in shorter : Len(u) = n - 1},
                                           ch \in Alphabet}

ScoreInit ==
    /\ Idle
    /\ \E q \in Texts(MaxLen), c \in Texts(MaxLen) :
          scorer = [query |-> q, candidate |-> c, score |-> 0, applied |-> FALSE]

\* _string_similarity_score(query, candidate)
ApplyScore ==
    /\ ~scorer.applied
    /\ scorer' = [scorer EXCEPT
                      !.score = StringSimilarityScore(scorer.query, scorer.candidate),
                      !.applied = TRUE]
    /\ UNCHANGED <<pc, args, query, limit, gen, candidates_scanned, pages_scanned,
                   scored, requests, responses, considered, stop, result, error>>

ScoreNext == ApplyScore

ScoreSpec == ScoreInit /\ [][ScoreNext]_vars
\* ------------------------------------------------------------ properties

SearchDone == args.op = "search" /\ pc = "done"
ListDone == args.op = "list" /\ pc = "done"

\* One tenth of a point, times Unit.
Tenth == Unit \div 10

\* The records of every page fetched so far, in upstream order.
RECURSIVE ItemsOf(_)
ItemsOf(rs) ==
    IF rs = <<>> THEN <<>>
    ELSE IF Head(rs) = Raised THEN ItemsOf(Tail(rs))
    ELSE ExtractListItems(Head(rs)) \o ItemsOf(Tail(rs))

\* The limit the caller asked for, brought into [1, 50].
WantedLimit ==
    IF args.limit < 1 THEN 1 ELSE IF args.limit > 50 THEN 50 ELSE args.limit

\* The page size the caller asked for, brought into [1, 100].
WantedPerPage ==
    IF args.per_page < 1 THEN 1 ELSE IF args.per_page > 100 THEN 100
    ELSE args.per_page

\* The page budget: max(1, maxPages).
WantedPages == IF args.max_pages < 1 THEN 1 ELSE args.max_pages

\* C1: a finished search returns at most `limit` (clamped to [1,50]) matches,
\* and their scores are in non-increasing order.
MatchesBoundedAndSorted ==
    SearchDone =>
        LET m == result[1].matches
        IN  /\ Len(m) <= WantedLimit
            /\ \A i \in 1..(Len(m) - 1) : m[i].score[2] >= m[i + 1].score[2]

\* C1 happens: more records were accepted than the limit allows, the first
\* accepted one scored below the last, and two matches of different score
\* came back.
MatchesCutAndReordered ==
    /\ SearchDone
    /\ Len(scored) > limit
    /\ scored[1].score < scored[Len(scored)].score
    /\ Len(result[1].matches) = 2
    /\ result[1].matches[1].score[2] > result[1].matches[2].score[2]

\* C2 as stated: the reported (rounded) score of every returned match is at
\* least minScore.
ReportedScoreAtLeastMin ==
    SearchDone =>
        \A i \in 1..Len(result[1].matches) :
            result[1].matches[i].score[2] * Tenth >= args.min_score

\* C2, amended: every retained match has an unrounded score of at least
\* minScore; the reported score is within 0.05 of minScore from below, and
\* is at least minScore when minScore is a multiple of 0.1.
RetainedScoreAtLeastMin ==
    args.op = "search" =>
        /\ \A k \in 1..Len(scored) : scored[k].score >= args.min_score
        /\ SearchDone =>
              \A i \in 1..Len(result[1].matches) :
                  LET reported == result[1].matches[i].score[2] * Tenth
                  IN  /\ 2 * reported + Tenth >= 2 * args.min_score
                      /\ args.min_score % Tenth = 0 => reported >= args.min_score

\* C2 happens: a returned match whose score passed the threshold is reported
\* with a rounded score below the threshold.
ReportedBelowMin ==
    /\ SearchDone
    /\ \E i \in 1..Len(result[1].matches) :
          result[1].matches[i].score[2] * Tenth < args.min_score

\* best_score and best_field of each of the records recs.
RECURSIVE BestOfEach(_)
BestOfEach(recs) ==
    IF recs = <<>> THEN <<>>
    ELSE <<Best(args.kind, query, Head(recs))>> \o BestOfEach(Tail(recs))

\* The summarized top-`lim` of the records recs: the accepted records (best
\* score >= minScore) ordered by score descending, equal scores by position.
TopOf(recs, lim) ==
    LET best == BestOfEach(recs)
        ok == {i \in 1..Len(recs) : best[i].score >= args.min_score}
        rank(i) == 1 + Cardinality({j \in ok :
                          \/ best[j].score > best[i].score
                          \/ best[j].score = best[i].score /\ j < i})
        n == IF Cardinality(ok) < lim THEN Cardinality(ok) ELSE lim
    IN  [r \in 1..n |->
            LET i == CHOOSE i \in ok : rank(i) = r
            IN  CompactOf(args.kind, recs[i], Num(RoundTenths(best[i].score)),
                          best[i].field)]

\* C3 as stated: the matches are the top `limit` of all records of the pages
\* scanned, whether or not the scan stopped early.
MatchesAreTopOfFullScan ==
    SearchDone => result[1].matches = TopOf(ItemsOf(responses), WantedLimit)

\* C3, amended: the matches are the top `limit` of the records scored before
\* the scan stopped; these are all records of the pages fetched when the scan
\* ran to exhaustion, and a prefix of them when it stopped early.
MatchesAreTopOfScanned ==
    SearchDone =>
        /\ result[1].matches = TopOf(considered, WantedLimit)
        /\ stop = "exhausted" => considered = ItemsOf(responses)
        /\ stop = "early" =>
              considered = SubSeq(ItemsOf(responses), 1, Len(considered))

\* C3 happens: the scan stopped early with records of the current page left
\* unscored, after accepting at least two records out of score order.
StoppedEarlyWithRecordsLeft ==
    /\ SearchDone
    /\ stop = "early"
    /\ Len(considered) < Len(ItemsOf(responses))
    /\ Len(result[1].matches) >= 2
    /\ scored[1].score < scored[Len(scored)].score

\* C4: the requests of one scan are pages 1, 2, ..., k in this order, each
\* with per_page clamped to [1,100], and k <= max(1, maxPages).
PagesAscendingWithinBudget ==
    args.op = "search" =>
        /\ Len(requests) <= WantedPages
        /\ \A i \in 1..Len(requests) :
              /\ requests[i].page = i
              /\ requests[i].per_page = WantedPerPage

\* C4 happens: a scan used its whole budget of at least two pages although
\* every page was non-empty and declared more pages than the budget.
BudgetUsedUp ==
    /\ SearchDone
    /\ stop = "exhausted"
    /\ args.max_pages >= 2
    /\ Len(requests) = args.max_pages
    /\ \A i \in 1..Len(responses) :
          /\ ExtractListItems(responses[i]) # <<>>
          /\ IsInt(ExtractPagination(responses[i]).total_pages)
          /\ ExtractPagination(responses[i]).total_pages[2] > args.max_pages

\* Page i of the scan ends the pagination: its declared total is known and
\* reached, or it yielded nothing.
LastByUpstream(i) ==
    LET total == ExtractPagination(responses[i]).total_pages
    IN  \/ IsInt(total) /\ total[2] <= i
        \/ Len(ExtractListItems(responses[i])) = 0

\* C5: no page follows a page whose declared total is known and reached or
\* that yielded nothing; a scan that ran to exhaustion ended on such a page
\* or on its page budget.
NoPageAfterLast ==
    args.op = "search" =>
        /\ \A i \in 1..(Len(requests) - 1) : ~LastByUpstream(i)
        /\ (pc = "done" /\ stop = "exhausted") =>
              \/ LastByUpstream(Len(requests))
              \/ Len(requests) = WantedPages

\* C5 happens: a scan with budget left ended on an empty page that declared
\* more pages.
EndedOnEmptyPage ==
    /\ SearchDone
    /\ Len(requests) = 1
    /\ args.max_pages >= 2
    /\ ExtractListItems(responses[1]) = <<>>
    /\ IsInt(ExtractPagination(responses[1]).total_pages)
    /\ ExtractPagination(responses[1]).total_pages[2] > 1

\* C6: a request that raised is the last request of the search; the search
\* ends with that error and returns nothing, whatever earlier pages held.
RaiseEndsSearch ==
    args.op = "search" =>
        \A i \in 1..Len(responses) :
            responses[i] = Raised =>
                /\ i = Len(responses)
                /\ Len(requests) = i
                /\ \A j \in 1..(i - 1) : requests[j].page # requests[i].page
                /\ pc = "failed"
                /\ error = "RuntimeError"
                /\ result = <<>>

\* C6 happens: the second page raised after records of the first page had
\* been accepted.
RaisedAfterAccepting ==
    /\ args.op = "search"
    /\ Len(responses) = 2
    /\ responses[2] = Raised
    /\ scored # <<>>
    /\ pc = "failed"

\* A text that is empty or made of whitespace only.
IsBlank(q) == q # None /\ \A i \in 1..Len(q) : q[i] = " "

\* C7: a search whose query is empty or whitespace-only fails with the
\* invalid-input error, sends no request and returns nothing.
BlankQueryRejected ==
    (args.op = "search" /\ IsBlank(args.query)) =>
        /\ pc = "failed"
        /\ error = "ValueError"
        /\ requests = <<>>
        /\ responses = <<>>
        /\ result = <<>>

\* C7 happens: a search was called with a query of two spaces.
WhitespaceQueryCalled ==
    /\ args.op = "search"
    /\ args.query = <<" ", " ">>
    /\ pc = "failed"

\* C8: a list call with per_page = N returns at most N items.
ListAtMostPerPage ==
    ListDone => Len(result[1].items) <= args.per_page

\* The elements of a data list that are mappings.
DictItems(r) == SelectSeq(r.items, LAMBDA it : it.isdict)

\* The records a well- or ill-shaped payload r stands for: none unless r is a
\* mapping whose data is a list; of a list, each mapping, unwrapped from its
\* "attributes" mapping if it has one and taken as it is otherwise.
RecordsIn(r, recs) ==
    IF r.shape = "envelope" /\ r.data = "list"
    THEN /\ Len(recs) = Len(DictItems(r))
         /\ \A k \in 1..Len(recs) :
               /\ DictItems(r)[k].attributes = "dict" => recs[k] = DictItems(r)[k].attrs
               /\ DictItems(r)[k].attributes # "dict" => recs[k] = DictItems(r)[k].own
    ELSE recs = <<>>

\* The payload r declares no usable total page count.
TotalUnknown(r) ==
    \/ r.shape # "envelope"
    \/ r.meta # "dict"
    \/ r.pagination # "dict"
    \/ ~IsInt(r.pg.total_pages)

\* C10: a response that was fetched never makes the call fail, whatever its
\* shape: the page's records are those of RecordsIn, a payload without usable
\* pagination gives an unknown total, and a list call returns one item per
\* record.
AnyShapeTolerated ==
    /\ (responses # <<>> /\ responses[Len(responses)] # Raised) =>
          pc # "failed" /\ error = "none"
    /\ (args.op = "search" /\ pc = "yield") =>
          LET r == responses[Len(responses)]
          IN  /\ RecordsIn(r, gen.items)
              /\ TotalUnknown(r) => ~IsInt(gen.pagination.total_pages)
    /\ (args.op = "list" /\ responses[1] # Raised) =>
          /\ pc = "done"
          /\ \E recs \in {ExtractListItems(responses[1])} :
                /\ RecordsIn(responses[1], recs)
                /\ Len(result[1].items) = Len(recs)
                /\ \A k \in 1..Len(recs) :
                      result[1].items[k] = CompactOf(args.kind, recs[k], None, None)

\* C10 happens: an account search returned a match taken from an item without
\* "attributes", in a page whose envelope had no meta mapping.
FlatItemMatched ==
    /\ SearchDone
    /\ args.kind = "user"
    /\ \E i \in 1..Len(responses) :
          /\ responses[i].meta # "dict"
          /\ \E k \in 1..Len(responses[i].items) :
                /\ responses[i].items[k].isdict
                /\ responses[i].items[k].attributes # "dict"
                /\ \E m \in 1..Len(result[1].matches) :
                      result[1].matches[m].username
                          = responses[i].items[k].own["username"]

\* The number of records of the first n pages fetched.
YieldedBy(n) == Len(ItemsOf(SubSeq(responses, 1, n)))

\* The page the k-th record of the scan came from.
PageOfRecord(k) == CHOOSE n \in 1..Len(responses) :
                       YieldedBy(n) >= k /\ YieldedBy(n - 1) < k

\* C11: when a search finishes, scanned.items is the number of records the
\* paginator yielded before the scan stopped, accepted or not, and
\* scanned.pages the number of distinct pages those records came from; so
\* scanned.pages <= pages fetched <= max(1, maxPages), and a first page
\* without items gives no matches and scanned.items = 0.
ScannedCountsYielded ==
    SearchDone =>
        LET s == result[1].scanned
        IN  /\ considered = SubSeq(ItemsOf(responses), 1, Len(considered))
            /\ s.items = Len(considered)
            /\ s.items >= Len(scored)
            /\ s.pages = Cardinality({PageOfRecord(k) : k \in 1..Len(considered)})
            /\ s.pages <= Len(requests)
            /\ Len(requests) <= WantedPages
            /\ ExtractListItems(responses[1]) = <<>> =>
                  /\ result[1].matches = <<>>
                  /\ s.items = 0
                  /\ s.pages = 0

\* C11 happens: a search finished after rejecting some records and accepting
\* others, and its second page yielded nothing, so that fewer pages were
\* scanned than fetched.
ScannedMoreThanAccepted ==
    /\ SearchDone
    /\ scored # <<>>
    /\ result[1].scanned.items > Len(scored)
    /\ Len(requests) = 2
    /\ result[1].scanned.pages = 1

\* The record scored last satisfied the early-termination condition: with it,
\* at least `limit` records are accepted, and its best score is at least 99.5.
NearCertainHeld ==
    /\ args.op = "search"
    /\ considered # <<>>
    /\ Len(scored) >= WantedLimit
    /\ 2 * Best(args.kind, query, considered[Len(considered)]).score >= 199 * Unit

\* The condition decides how the scan goes on.  Once it holds the search has
\* returned, with no request beyond the page of that record; so it never held
\* for a record that was followed by another one.  A search that returned
\* without it scored every record of every page fetched and ended where the
\* paginator ends: on a reached total, an empty page or the page budget.
StopsOnNearCertainOnly ==
    /\ NearCertainHeld =>
          /\ pc = "done"
          /\ result # <<>>
          /\ considered = SubSeq(ItemsOf(responses), 1, Len(considered))
          /\ Len(requests) = PageOfRecord(Len(considered))
    /\ (SearchDone /\ ~NearCertainHeld) =>
          /\ considered = ItemsOf(responses)
          /\ \/ LastByUpstream(Len(requests))
             \/ Len(requests) = WantedPages

\* C12: as soon as a record has been considered whose best score is >= 99.5
\* while at least `limit` (clamped) matches are accepted, that record
\* included, the scan stops: from then on no record is scored, not even of
\* the current page, and no page is requested; a scan in which this never
\* held goes on until the paginator is exhausted.
NearCertainStopsScan ==
    /\ []StopsOnNearCertainOnly
    /\ [][NearCertainHeld =>
              UNCHANGED <<considered, candidates_scanned, scored, requests,
                          responses, result>>]_vars

\* C12 happens: the second record of a page satisfied the condition and the
\* search returned, leaving a record of that page unscored and a declared
\* further page within the budget unrequested.
NearCertainStoppedMidPage ==
    /\ SearchDone
    /\ NearCertainHeld
    /\ Len(considered) = 2
    /\ Len(considered) < Len(ItemsOf(responses))
    /\ Len(requests) = 1
    /\ WantedPages = 2
    /\ IsInt(ExtractPagination(responses[1]).total_pages)
    /\ ExtractPagination(responses[1]).total_pages[2] > 1

\* The scores of the fields from position f on, in priority order, as (name,
\* score) pairs; an empty field, which is not scored, is left out.
RECURSIVE FieldScores(_, _)
FieldScores(fields, f) ==
    IF f > Len(fields) THEN <<>>
    ELSE IF ~Truthy(fields[f][2]) THEN FieldScores(fields, f + 1)
    ELSE << <<fields[f][1], StringSimilarityScore(query, fields[f][2])>> >>
             \o FieldScores(fields, f + 1)

\* The scores the field loop computes for a record.
ScoresOf(attrs) == FieldScores(FieldsOf(args.kind, attrs), 1)

\* The maximum of the (name, score) pairs fs; 0 when there is none.
TopScore(fs) ==
    IF fs = <<>> THEN 0
    ELSE fs[CHOOSE f \in 1..Len(fs) : \A g \in 1..Len(fs) : fs[g][2] <= fs[f][2]][2]

\* The name of the earliest of the pairs fs that attains their maximum; None
\* when there is none.
FirstTopField(fs) ==
    IF fs = <<>> THEN None
    ELSE Str(fs[CHOOSE f \in 1..Len(fs) :
                    /\ \A g \in 1..Len(fs) : fs[g][2] <= fs[f][2]
                    /\ \A g \in 1..(f - 1) : fs[g][2] < fs[f][2]][1])

\* The number of the pairs fs that attain their maximum.
TopFields(fs) ==
    Cardinality({f \in 1..Len(fs) : \A g \in 1..Len(fs) : fs[g][2] <= fs[f][2]})

\* The place of the i-th accepted record in the final ordering: after every
\* accepted record of greater score and every earlier one of equal score.
PlaceOf(i) ==
    1 + Cardinality({j \in 1..Len(scored) :
            \/ scored[j].score > scored[i].score
            \/ scored[j].score = scored[i].score /\ j < i})

\* The matches of a finished search are the accepted records whose place is
\* within `limit`, each at its place, with the maximum of its field scores as
\* score and the field Field(fs) of its field scores fs as matched_on.
MatchesByPlace(Field(_)) ==
    LET m == result[1].matches
    IN  /\ Len(m) = Min(WantedLimit, Len(scored))
        /\ \A i \in 1..Len(scored) :
              LET fs == ScoresOf(scored[i].attrs)
              IN  /\ scored[i].score = TopScore(fs)
                  /\ PlaceOf(i) <= WantedLimit =>
                        m[PlaceOf(i)] = CompactOf(args.kind, scored[i].attrs,
                                                  Num(RoundTenths(TopScore(fs))),
                                                  Field(fs))

\* C13 as stated: matched_on of every match is the earliest field in priority
\* order that attains the record's maximum score, and matches of equal score
\* keep scan order in the final ordering and at the cut.
TiesKeepFirstSeen ==
    SearchDone => MatchesByPlace(FirstTopField)

\* matched_on as the code leaves it: no field when the maximum score is 0.
FirstPositiveTopField(fs) ==
    IF TopScore(fs) > 0 THEN FirstTopField(fs) ELSE None

\* C13, amended: matched_on of a match is the earliest field in priority
\* order that attains the record's maximum score when that score is above 0,
\* and is absent when no field scores above 0; matches of equal (unrounded)
\* score keep scan order in the final ordering and at the cut.
TiesKeepFirstSeenAboveZero ==
    SearchDone => MatchesByPlace(FirstPositiveTopField)

\* C13 happens: of two different accepted records with the same score the
\* earlier one was returned and the later one cut, and two fields of the
\* returned one attain its score, which is above 0.
TieAtTheCut ==
    /\ SearchDone
    /\ \E i, j \in 1..Len(scored) :
          /\ i < j
          /\ scored[i].score = scored[j].score
          /\ scored[i].score > 0
          /\ scored[i].attrs # scored[j].attrs
          /\ PlaceOf(i) <= WantedLimit
          /\ PlaceOf(j) > WantedLimit
          /\ TopFields(ScoresOf(scored[i].attrs)) >= 2

\* ------------------------------------------------ properties of the scorer

\* The three outcomes the claim names, for an applied scorer.
ScoreInRange == 0 <= scorer.score /\ scorer.score <= 100 * Unit

\* The weighted sum of the claim, clamped into [0, 100].
ClampedSum(q, c) ==
    LET raw == RawScore(q, c)
    IN  IF raw < 0 THEN 0 ELSE IF raw > 100 * Unit THEN 100 * Unit ELSE raw

\* C9 as stated: the score is 0 when a normalized form is empty, 100 when the
\* normalized forms are equal and non-empty, and in every other case the
\* clamped weighted sum.
ScoreByNormalizedForms ==
    scorer.applied =>
        LET q == Normalize(scorer.query)
            c == Normalize(scorer.candidate)
        IN  /\ ScoreInRange
            /\ (q = <<>> \/ c = <<>>) => scorer.score = 0
            /\ (q # <<>> /\ q = c) => scorer.score = 100 * Unit
            /\ (q # <<>> /\ c # <<>> /\ q # c) =>
                  scorer.score = ClampedSum(scorer.query, scorer.candidate)

\* C9, amended: the score lies in [0,100]; it is 0 when a normalized form is
\* empty, 100 when the normalized forms are equal and non-empty or the
\* compact forms are equal, and otherwise the clamped weighted sum, whose
\* bonus is one of 0, 6, 8, 12.
ScoreByNormalizedOrCompactForms ==
    scorer.applied =>
        LET q == Normalize(scorer.query)
            c == Normalize(scorer.candidate)
            same == q = c \/ Compact(scorer.query) = Compact(scorer.candidate)
        IN  /\ ScoreInRange
            /\ (q = <<>> \/ c = <<>>) => scorer.score = 0
            /\ (q # <<>> /\ c # <<>> /\ same) => scorer.score = 100 * Unit
            /\ (q # <<>> /\ c # <<>> /\ ~same) =>
                  /\ scorer.score = ClampedSum(scorer.query, scorer.candidate)
                  /\ Bonus(Compact(scorer.query), Compact(scorer.candidate))
                         \in {0, 6, 8, 12}

\* C9 happens: two texts with different normalized forms and equal compact
\* forms scored 100 although their weighted sum is below 100.
CompactEqualScoredFull ==
    /\ scorer.applied
    /\ Normalize(scorer.query) # Normalize(scorer.candidate)
    /\ Compact(scorer.query) = Compact(scorer.candidate)
    /\ RawScore(scorer.query, scorer.candidate) < 100 * Unit
    /\ scorer.score = 100 * Unit
====
